---- MODULE Spec2Model ----
(***************************************************************************)
(* Model of the VoicePanel React component (src/unnamed/part_003).         *)
(*                                                                         *)
(* A React event handler, the render it causes and the effects of that     *)
(* render form one atomic action: handlers and effects read the props and  *)
(* state of the latest render (every effect lists what it reads in its     *)
(* dependency array, button handlers are rebuilt on each render).  The     *)
(* exceptions are the async functions: what runs after an await is a       *)
(* separate action, and it keeps the socket it captured when it started.   *)
(* The infoMessage text slot is left out: nothing reads it.                *)
(*                                                                         *)
(* The button handlers (startVoice, handleToggleMute, handlePushStart,     *)
(* handlePushEnd) are callable in every state: their own guards decide,    *)
(* the conditional rendering of the buttons is a stricter caller.          *)
(*                                                                         *)
(* Spec is the session and its mute flags of a known player under every   *)
(* change of the props socket and shouldForceDisconnect; the peer handlers *)
(* never write the status, the flags or the local stream and are left to   *)
(* SpecMesh, the peer records of one online session.  SpecReconcile and    *)
(* SpecOffer are the reconciles and the inbound offers of such a session   *)
(* under every roster and every sender.  SpecMesh, SpecChurn, SpecFailure  *)
(* and SpecCandidate take the rosters of a room in which the local         *)
(* participant is alone or with every other participant; SpecSession,      *)
(* SpecTeardown and SpecChurn take the inbound offers of one peer.         *)
(* SpecSession is the session from mount with its match and connection     *)
(* props, SpecTeardown the server's teardowns of a session with flags.     *)
(* SpecChurn is the mesh under rosters, inbound offers, connection         *)
(* failures and a leave, SpecCandidate its inbound candidates, SpecRejoin  *)
(* the session through leaves and joins with the events of the connections *)
(* it closed, SpecRegistry the participant list under snapshots and status *)
(* updates.  SpecFailure is the negotiations of an online session with     *)
(* their rejections, SpecOwnOffer its reconciles with inbound offers that  *)
(* name the local participant as sender, SpecDispose the session up to the *)
(* unmount of the component.  SpecGlare adds a second client of the same   *)
(* room, running the same handlers under its own id, and the relay of the  *)
(* offers between the two.  SpecHook is the useRoomSocket hook             *)
(* (src/unnamed/part_004) and SpecPage the WebSocket of a page             *)
(* (connectToRoomSocket, src/unnamed/part_000), each on its own.           *)
(***************************************************************************)
EXTENDS Integers, Sequences, FiniteSets, TLC

\* ---- bounds ---------------------------------------------------------------
MaxPending == 2     \* getUserMedia requests awaiting the user's answer
MaxStreams == 2     \* microphone streams ever granted
MaxPeers == 2       \* remote participants
MaxConns == 3       \* RTCPeerConnection objects alive at a time
MaxSockets == 4     \* sockets a page creates
MaxTasks == 2       \* suspended negotiations (async functions in an await)

StreamIds == 1..MaxStreams
NoStream == 0
SelfId == 0                     \* the local participant's id
PeerIds == 1..MaxPeers          \* the other participants' ids
AllIds == PeerIds \cup {SelfId}  \* the keys a map of participants can have
PeerId == 1                     \* the id of the second client, where there is one
ConnIds == 1..MaxConns
SocketIds == 1..MaxSockets
NoSocket == 0                   \* socketRef.current is null
NoConn == 0

VARIABLES
  \* props (VoicePanelProps); socket/roomCode/player are TRUE when non-null
  socket, roomCode, player, isConnected, isMatchActive, shouldForceDisconnect,
  \* useState
  voiceStatus, manualMuted, autoMuted, pushActive, voiceError, remoteStreams,
  participants,   \* the roster shown: the entries of the payloads, in their order
  \* useRef
  localStreamRef, peersRef, remoteStreamRef, pushReleasedRef,
  \* environment
  streams,        \* the track of each MediaStream handed out by getUserMedia
  conns,          \* the RTCPeerConnection objects constructed so far
  pendingMic,     \* startVoice calls suspended in `await getUserMedia`
  tasks,          \* syncPeerConnections / handleAnswer calls suspended in an await
  \* observation
  emitted,        \* socket.emit calls of the last action, in order
  sent,           \* last value broadcast per flag since it was last set otherwise
  dropped,        \* ids whose record a reconcile removed, absent from every roster since
  reconciled,     \* the last action ended a syncPeerConnections call that ran
                  \* alone ("once"; "again": as the one before, of the same roster)
  lastOp,         \* the handler the last action ran
  \* a second client of the same room, when one is modelled
  peer,           \* its VoicePanel: present, the state s, the suspended calls
  wire,           \* the voice:offer messages relayed between the two clients
  \* the sockets the pages open
  hook,           \* useRoomSocket: its arguments, its ref, its state, its sockets
  page            \* the room effect of a page: its room code, its WebSockets
                  \* and the socketConnected flag of the store

props == <<socket, roomCode, player, isConnected, isMatchActive, shouldForceDisconnect>>
panel == <<voiceStatus, manualMuted, autoMuted, pushActive, voiceError,
           remoteStreams, participants, localStreamRef, peersRef,
           remoteStreamRef, pushReleasedRef, streams, conns, emitted, sent,
           dropped, reconciled>>
world == <<peer, wire, hook, page>>
vars == <<props, panel, pendingMic, tasks, lastOp, world>>

B2S(b) == IF b THEN "true" ELSE "false"
Range(q) == {q[i] : i \in DOMAIN q}
\* a VoiceParticipant, kept as its playerId and its isMuted (displayName,
\* isAutoMuted and pushToTalkPressed travel with them, nothing reads them)
Entry(i, m) == [playerId |-> i, isMuted |-> m]
PlayerIds(list) == [k \in DOMAIN list |-> list[k].playerId]
Ids(list) == Range(PlayerIds(list))
Msg(t, v) == [type |-> t, val |-> v, target |-> SelfId]
MsgTo(t, id) == [type |-> t, val |-> "none", target |-> id]
NoSent == [mute |-> "none", auto |-> "none", push |-> "none"]
NoRecord == [conn |-> NoConn, negotiated |-> FALSE]    \* no entry in peersRef
NoRecords == [i \in AllIds |-> NoRecord]
NoRemote == [i \in AllIds |-> NoConn]                 \* no remote stream
\* a connection: the id its handlers close over, whether onicecandidate and
\* ontrack are set, its signalingState ("none": not constructed yet), whether
\* a local description was set, and the voice:offer messages sent for it
NewConn == [target |-> SelfId, handlers |-> FALSE, sig |-> "none",
            local |-> FALSE, offers |-> 0]

\* ---- the component's state as one value ----------------------------------
\* (what a handler reads and writes; Props holds the props of the render)
Here ==
  [voiceStatus |-> voiceStatus, manualMuted |-> manualMuted,
   autoMuted |-> autoMuted, pushActive |-> pushActive,
   voiceError |-> voiceError, remoteStreams |-> remoteStreams,
   participants |-> participants,
   localStreamRef |-> localStreamRef, peersRef |-> peersRef,
   remoteStreamRef |-> remoteStreamRef,
   pushReleasedRef |-> pushReleasedRef, streams |-> streams,
   conns |-> conns, emitted |-> <<>>, sent |-> sent,
   dropped |-> dropped, reconciled |-> "no"]

Props ==
  [socket |-> socket, roomCode |-> roomCode, player |-> player,
   isConnected |-> isConnected, isMatchActive |-> isMatchActive,
   shouldForceDisconnect |-> shouldForceDisconnect]

isOnline(s) == s.voiceStatus = "online"

canJoin(p) ==
  p.socket /\ p.isConnected /\ p.isMatchActive /\ p.roomCode /\ p.player

\* socket.emit(m) on the socket sock (FALSE: there is none); sent keeps the
\* value of the last flag broadcast
Emit(s, sock, m) ==
  IF ~sock THEN s
  ELSE [s EXCEPT !.emitted = Append(@, m),
                 !.sent = CASE m.type = "voice:mute" -> [@ EXCEPT !.mute = m.val]
                            [] m.type = "voice:auto-mute" -> [@ EXCEPT !.auto = m.val]
                            [] m.type = "voice:push-to-talk" -> [@ EXCEPT !.push = m.val]
                            [] OTHER -> @]

\* ---- stopVoice (lines 245-275) --------------------------------------------
isOpen(conn) == conn.sig \notin {"none", "closed"}

\* mutant: the records are dropped, their connections left open
closeAll_keepsOpen(s) == [s EXCEPT !.peersRef = NoRecords]

\* mutant: the connections are closed with their handlers left on
closeAll_keepsHandlers(s) ==
  [s EXCEPT !.conns = [c \in ConnIds |->
                         IF \E i \in AllIds : s.peersRef[i].conn = c
                           THEN [s.conns[c] EXCEPT !.sig = "closed"]
                           ELSE s.conns[c]],
            !.peersRef = NoRecords]

\* lines 246-251: every record's handlers are cleared, its connection closed
closeAll(s) ==
  [s EXCEPT !.conns = [c \in ConnIds |->
                         IF \E i \in AllIds : s.peersRef[i].conn = c
                           THEN [s.conns[c] EXCEPT !.sig = "closed", !.handlers = FALSE]
                           ELSE s.conns[c]],
            !.peersRef = NoRecords]

\* mutant: the remote streams outlive the records
clearRemote_keepsStreams(s) == s

\* lines 253-257
clearRemote(s) ==
  [s EXCEPT !.remoteStreamRef = NoRemote, !.remoteStreams = NoRemote]

StopLocal(s) ==
  IF s.localStreamRef # NoStream
    THEN [s EXCEPT !.streams[s.localStreamRef] = "ended",
                   !.localStreamRef = NoStream]
    ELSE s

ResetFlags(s) ==
  [s EXCEPT !.voiceStatus = "idle", !.manualMuted = TRUE,
            !.autoMuted = FALSE, !.pushActive = FALSE, !.sent = NoSent]

stopVoice(s, sock) ==
  ResetFlags(Emit(StopLocal(clearRemote(closeAll(s))), sock,
                  Msg("voice:leave", "none")))

\* ---- applyTrackState (lines 395-403) --------------------------------------
\* mutant: push-to-talk does not override the manual mute
shouldEnable_ignoresPush(s) == ~s.autoMuted /\ ~s.manualMuted

shouldEnable(s) == ~s.autoMuted /\ (~s.manualMuted \/ s.pushActive)

\* r: the render whose flags the closure holds; s: the refs as they are now
applyTrackState(r, s) ==
  IF s.localStreamRef = NoStream
    THEN s
    ELSE [s EXCEPT !.streams[s.localStreamRef] = IF shouldEnable(r) THEN "on" ELSE "off"]

\* ---- activeParticipants (lines 203-213) -----------------------------------
effectiveMuted(participant) == participant.isMuted \/ participant.isAutoMuted

isSpeaking(participant) ==
  ~effectiveMuted(participant) /\ participant.pushToTalkPressed

\* ---- the effects of a render (lines 141-152, 168-173) ---------------------
\* p0,s0: props and state of the previous render; p,s: of this one.
socketEffectFires(p0, p) == p0.socket # p.socket /\ ~p.socket

forceEffectFires(p0, s0, p, s) ==
  /\ p0.shouldForceDisconnect # p.shouldForceDisconnect
       \/ s0.voiceStatus # s.voiceStatus
  /\ p.shouldForceDisconnect /\ s.voiceStatus # "idle"

trackEffectFires(s0, s) ==
  /\ isOnline(s)
  /\ \/ isOnline(s0) # isOnline(s)
     \/ s0.manualMuted # s.manualMuted
     \/ s0.autoMuted # s.autoMuted
     \/ s0.pushActive # s.pushActive

RunEffects(p0, s0, p, s) ==
  LET s1 == IF socketEffectFires(p0, p) THEN stopVoice(s, p.socket) ELSE s
      s2 == IF forceEffectFires(p0, s0, p, s) THEN stopVoice(s1, p.socket) ELSE s1
      s3 == IF trackEffectFires(s0, s) THEN applyTrackState(s, s2) ELSE s2
  IN  s3

Commit(s) ==
  /\ voiceStatus' = s.voiceStatus
  /\ manualMuted' = s.manualMuted
  /\ autoMuted' = s.autoMuted
  /\ pushActive' = s.pushActive
  /\ voiceError' = s.voiceError
  /\ remoteStreams' = s.remoteStreams
  /\ participants' = s.participants
  /\ dropped' = s.dropped
  /\ reconciled' = s.reconciled
  /\ peersRef' = s.peersRef
  /\ remoteStreamRef' = s.remoteStreamRef
  /\ conns' = s.conns
  /\ localStreamRef' = s.localStreamRef
  /\ pushReleasedRef' = s.pushReleasedRef
  /\ streams' = s.streams
  /\ emitted' = s.emitted
  /\ sent' = s.sent

\* a closed connection that no suspended call holds is unreachable: its slot
\* is free again
collect(s, ts) ==
  [s EXCEPT !.conns = [c \in ConnIds |->
                         IF s.conns[c].sig = "closed" /\ \A t \in ts : t.conn # c
                           THEN NewConn ELSE s.conns[c]]]

\* the relay of the signalling server between the local client and a second
\* one: the voice:offer messages the handler emitted for it are in flight,
\* the one a voice:offer handler received is not any more
Offers(emits, id) ==
  Len(SelectSeq(emits, LAMBDA m : m.type = "voice:offer" /\ m.target = id))

Carried(op, s) ==
  /\ UNCHANGED <<peer, hook, page>>
  /\ wire' = IF ~peer.present THEN wire
             ELSE [toPeer |-> wire.toPeer + Offers(s.emitted, PeerId),
                   toLocal |-> IF op = "voice:offer" THEN wire.toLocal - 1
                               ELSE wire.toLocal,
                   handled |-> IF op = "voice:offer" THEN wire.handled \cup {SelfId}
                               ELSE wire.handled]

\* a handler ran under the current props, left the state s and the suspended
\* calls ts
Step(op, s, ts) ==
  /\ tasks' = ts
  /\ Commit(collect(RunEffects(Props, Here, Props, s), ts))
  /\ lastOp' = op
  /\ UNCHANGED props
  /\ Carried(op, s)

\* the suspended calls ts, after something else ran while they wait
Disturbed(ts) == {[t EXCEPT !.alone = FALSE] : t \in ts}

Handled(op, s) == Step(op, s, Disturbed(tasks))

\* ---- startVoice (lines 215-243) -------------------------------------------
\* mutant: no check of voiceStatus
startVoiceCall_noStatusGuard(s, p) ==
  IF ~canJoin(p) THEN [s EXCEPT !.voiceError = "precondition"]
  ELSE [s EXCEPT !.voiceError = "none", !.voiceStatus = "starting"]

\* up to the await
startVoiceCall(s, p) ==
  IF ~canJoin(p) THEN [s EXCEPT !.voiceError = "precondition"]
  ELSE IF s.voiceStatus # "idle" THEN s
  ELSE [s EXCEPT !.voiceError = "none", !.voiceStatus = "starting"]

startVoiceRequestsMic(s, p) == canJoin(p) /\ s.voiceStatus = "idle"

\* mutant: the flags are not reset on the grant
startVoiceGranted_keepsFlags(s, id) ==
  Emit([s EXCEPT !.streams[id] = "off", !.localStreamRef = id,
                 !.voiceStatus = "online"],
       TRUE, Msg("voice:ready", "none"))

\* after the await, getUserMedia resolved with stream id
startVoiceGranted(s, id) ==
  LET s1 == [s EXCEPT !.streams[id] = "off",
                      !.localStreamRef = id,
                      !.manualMuted = TRUE, !.autoMuted = FALSE,
                      !.pushActive = FALSE, !.sent = NoSent,
                      !.voiceStatus = "online"]
  IN  Emit(s1, TRUE, Msg("voice:ready", "none"))

\* after the await, getUserMedia rejected
startVoiceDenied(s) ==
  [s EXCEPT !.voiceError = "microphone", !.voiceStatus = "idle"]

StartVoice ==
  /\ startVoiceRequestsMic(Here, Props) => pendingMic < MaxPending
  /\ pendingMic' = IF startVoiceRequestsMic(Here, Props)
                     THEN pendingMic + 1 ELSE pendingMic
  /\ Handled("startVoice", startVoiceCall(Here, Props))

FreeStreams == {i \in StreamIds : streams[i] = "none"}

MicGranted ==
  /\ pendingMic > 0
  /\ FreeStreams # {}
  /\ pendingMic' = pendingMic - 1
  /\ LET id == CHOOSE i \in FreeStreams : \A j \in FreeStreams : i <= j
     IN  Handled("micGranted", startVoiceGranted(Here, id))

MicDenied ==
  /\ pendingMic > 0
  /\ pendingMic' = pendingMic - 1
  /\ Handled("micDenied", startVoiceDenied(Here))

\* ---- Leave button (line 536) ----------------------------------------------
Leave ==
  /\ voiceStatus = "online"
  /\ Handled("leave", stopVoice(Here, socket))
  /\ UNCHANGED pendingMic

\* ---- handleInactive / handleShutdown (lines 109-120) ----------------------
\* mutant: the error is shown, the session is left as it is
handleInactive_errorOnly(s, sock) == [s EXCEPT !.voiceError = "inactive"]

handleInactive(s, sock) ==
  LET s1 == [s EXCEPT !.voiceError = "inactive"]
  IN  IF s.voiceStatus # "idle" THEN stopVoice(s1, sock) ELSE s1

handleShutdown(s, sock) == stopVoice(s, sock)

HandleInactive ==
  /\ socket
  /\ Handled("voice:inactive", handleInactive(Here, socket))
  /\ UNCHANGED pendingMic

HandleShutdown ==
  /\ socket
  /\ Handled("voice:shutdown", handleShutdown(Here, socket))
  /\ UNCHANGED pendingMic

\* ---- handleStatus (lines 66-73) --------------------------------------------
\* mutant: the update is appended, an entry of its id or not
updateParticipantList_appends(list, update) == Append(list, update)

\* lines 574-582
updateParticipantList(list, update) ==
  LET found == {k \in DOMAIN list : list[k].playerId = update.playerId}
  IN  IF found = {} THEN Append(list, update)
      ELSE LET index == CHOOSE k \in found : \A j \in found : k <= j
           IN  [list EXCEPT ![index] = update]

\* update: the payload's entry; a, pt: its isAutoMuted and pushToTalkPressed
handleStatus(s, p, update, a, pt) ==
  LET s1 == [s EXCEPT !.participants = updateParticipantList(@, update)]
  IN  IF p.player /\ update.playerId = SelfId
        THEN [s1 EXCEPT !.manualMuted = update.isMuted, !.autoMuted = a,
                        !.pushActive = pt, !.sent = NoSent]
        ELSE s1

\* the payload is the local participant's
handleStatusSelf(s, m, a, pt) ==
  handleStatus(s, [player |-> TRUE], Entry(SelfId, m), a, pt)

HandleStatus ==
  /\ socket /\ player
  /\ \E m \in BOOLEAN, a \in BOOLEAN, pt \in BOOLEAN :
       Handled("voice:status", handleStatusSelf(Here, m, a, pt))
  /\ UNCHANGED pendingMic

\* a voice:status event with the payload update, of any participant
HandleStatusWith(update) ==
  /\ socket
  /\ \E a \in BOOLEAN, pt \in BOOLEAN :
       Handled("voice:status", handleStatus(Here, Props, update, a, pt))
  /\ UNCHANGED pendingMic

Entries == {Entry(i, m) : i \in AllIds, m \in BOOLEAN}

HandleAnyStatus == \E update \in Entries : HandleStatusWith(update)

\* ---- handleToggleMute / handlePushStart / handlePushEnd (lines 277-302) ---
\* mutant: the value broadcast is the one before the toggle
handleToggleMute_emitsOld(s, sock) ==
  IF ~sock \/ ~isOnline(s) THEN s
  ELSE Emit([s EXCEPT !.manualMuted = ~s.manualMuted], sock,
            Msg("voice:mute", B2S(s.manualMuted)))

handleToggleMute(s, sock) ==
  IF ~sock \/ ~isOnline(s) THEN s
  ELSE LET next == ~s.manualMuted
       IN  Emit([s EXCEPT !.manualMuted = next], sock,
                Msg("voice:mute", B2S(next)))

\* mutant: the press leaves the marker of an earlier release in place
handlePushStart_keepsMarker(s, sock) ==
  IF ~sock \/ ~isOnline(s) THEN s
  ELSE Emit([s EXCEPT !.pushActive = TRUE], sock, Msg("voice:push-to-talk", "true"))

handlePushStart(s, sock) ==
  IF ~sock \/ ~isOnline(s) THEN s
  ELSE Emit([s EXCEPT !.pushReleasedRef = FALSE, !.pushActive = TRUE],
            sock, Msg("voice:push-to-talk", "true"))

handlePushEnd(s, sock) ==
  IF ~sock \/ ~isOnline(s) \/ s.pushReleasedRef
    THEN [s EXCEPT !.pushReleasedRef = FALSE]
    ELSE Emit([s EXCEPT !.pushActive = FALSE], sock,
              Msg("voice:push-to-talk", "false"))

HandleToggleMute ==
  /\ Handled("toggleMute", handleToggleMute(Here, socket))
  /\ UNCHANGED pendingMic

HandlePushStart ==
  /\ Handled("pushStart", handlePushStart(Here, socket))
  /\ UNCHANGED pendingMic

HandlePushEnd ==
  /\ Handled("pushEnd", handlePushEnd(Here, socket))
  /\ UNCHANGED pendingMic

\* ---- handleRelease (lines 175-194): window mouseup/touchend/mouseleave ----
handleRelease(s, sock) ==
  Emit([s EXCEPT !.pushReleasedRef = TRUE, !.pushActive = FALSE], sock,
       Msg("voice:push-to-talk", "false"))

HandleRelease ==
  /\ pushActive            \* the listener is registered only while pushActive
  /\ Handled("windowRelease", handleRelease(Here, socket))
  /\ UNCHANGED pendingMic

\* ---- handleVisibility (lines 154-166) -------------------------------------
\* mutant: hiding the tab also releases push-to-talk
handleVisibility_clearsPush(s, sock, hidden) ==
  IF ~isOnline(s) \/ ~sock THEN s
  ELSE Emit([s EXCEPT !.autoMuted = hidden, !.pushActive = FALSE], sock,
            Msg("voice:auto-mute", B2S(hidden)))

handleVisibility(s, sock, hidden) ==
  IF ~isOnline(s) \/ ~sock THEN s
  ELSE Emit([s EXCEPT !.autoMuted = hidden], sock,
            Msg("voice:auto-mute", B2S(hidden)))

HandleVisibility ==
  /\ \E hidden \in BOOLEAN :
       Handled("visibility", handleVisibility(Here, socket, hidden))
  /\ UNCHANGED pendingMic

\* ---- ensurePeerConnection (lines 342-393) --------------------------------
FreeConns(s) == {c \in ConnIds : s.conns[c].sig = "none"}

\* mutant: an existing record is not reused
ensurePeerConnection_alwaysNew(s, id) ==
  IF s.localStreamRef = NoStream
    THEN [s |-> s, conn |-> NoConn, res |-> "throw"]
  ELSE IF FreeConns(s) = {}
    THEN [s |-> s, conn |-> NoConn, res |-> "bound"]
  ELSE LET c == CHOOSE x \in FreeConns(s) : \A y \in FreeConns(s) : x <= y
       IN  [s |-> [s EXCEPT !.conns[c] = [target |-> id, handlers |-> TRUE,
                                          sig |-> "stable", local |-> FALSE,
                                          offers |-> 0],
                            !.peersRef[id] = [conn |-> c, negotiated |-> FALSE]],
            conn |-> c, res |-> "ok"]

\* res: "ok" (conn is the record's connection), "throw" (Local stream
\* missing), "bound" (the model has no RTCPeerConnection left to construct)
ensurePeerConnection(s, id) ==
  IF s.peersRef[id] # NoRecord
    THEN [s |-> s, conn |-> s.peersRef[id].conn, res |-> "ok"]
  ELSE IF s.localStreamRef = NoStream
    THEN [s |-> s, conn |-> NoConn, res |-> "throw"]
  ELSE IF FreeConns(s) = {}
    THEN [s |-> s, conn |-> NoConn, res |-> "bound"]
  ELSE LET c == CHOOSE x \in FreeConns(s) : \A y \in FreeConns(s) : x <= y
       IN  [s |-> [s EXCEPT !.conns[c] = [target |-> id, handlers |-> TRUE,
                                          sig |-> "stable", local |-> FALSE,
                                          offers |-> 0],
                            !.peersRef[id] = [conn |-> c, negotiated |-> FALSE]],
            conn |-> c, res |-> "ok"]

\* connection.ontrack (lines 364-371)
ontrack(s, c) ==
  IF s.conns[c].handlers
    THEN [s EXCEPT !.remoteStreamRef[s.conns[c].target] = c,
                   !.remoteStreams[s.conns[c].target] = c]
    ELSE s

\* ---- syncPeerConnections (lines 304-340) ----------------------------------
\* mutant: nothing is removed
removeStale_keepsAll(s, activeIds) == s

\* mutant: the records are removed, their connections left open
removeStale_keepsOpen(s, activeIds) ==
  [s EXCEPT !.peersRef = [i \in AllIds |->
                            IF i \in activeIds THEN s.peersRef[i] ELSE NoRecord]]

\* lines 310-325: records whose id left the roster
removeStale(s, activeIds) ==
  LET gone == {i \in AllIds : s.peersRef[i] # NoRecord /\ i \notin activeIds}
      drop == {i \in gone : s.remoteStreamRef[i] # NoConn}
  IN  [s EXCEPT !.conns = [c \in ConnIds |->
                             IF \E i \in gone : s.peersRef[i].conn = c
                               THEN [s.conns[c] EXCEPT !.sig = "closed"]
                               ELSE s.conns[c]],
                !.peersRef = [i \in AllIds |-> IF i \in gone THEN NoRecord ELSE s.peersRef[i]],
                !.dropped = @ \cup gone,
                !.remoteStreamRef = [i \in AllIds |-> IF i \in drop THEN NoConn ELSE s.remoteStreamRef[i]],
                !.remoteStreams = [i \in AllIds |-> IF i \in drop THEN NoConn ELSE s.remoteStreams[i]]]

\* a suspended call: the await it is in, the record it holds (id, conn), the
\* ids its loop has still to visit, whether nothing else ran since it began,
\* and a number n that tells it from another call suspended at the same place
NoTask == [kind |-> "none"]
SyncTask(pc, id, c, rest) ==
  [kind |-> "sync", pc |-> pc, id |-> id, conn |-> c, rest |-> rest,
   alone |-> TRUE, n |-> 0]
AnswerTask(id, c) ==
  [kind |-> "answer", pc |-> "setRemote", id |-> id, conn |-> c, rest |-> <<>>,
   alone |-> TRUE, n |-> 0]
OfferTask(pc, id, c) ==
  [kind |-> "offer", pc |-> pc, id |-> id, conn |-> c, rest |-> <<>>,
   alone |-> TRUE, n |-> 0]

\* lines 327-339: the loop from its next id to the await of createOffer
\* (the await of the settled ensurePeerConnection promise is not a
\* suspension point of the model: only microtasks run there)
RECURSIVE syncLoop(_, _)
syncLoop(s, ids) ==
  IF ids = <<>> THEN [s |-> s, task |-> NoTask, res |-> "ok"]
  ELSE LET e == ensurePeerConnection(s, Head(ids))
       IN  IF e.res # "ok" THEN [s |-> e.s, task |-> NoTask, res |-> e.res]
           ELSE IF e.s.conns[e.conn].sig = "stable" /\ ~e.s.peersRef[Head(ids)].negotiated
             THEN [s |-> e.s, res |-> "ok",
                   task |-> SyncTask("createOffer", Head(ids), e.conn, Tail(ids))]
           ELSE syncLoop(e.s, Tail(ids))

\* mutant: of two participants the one with the lower id initiates
syncPeerConnectionsAs_lowerInitiates(selfPlayerId, s, p, current) ==
  IF ~p.socket \/ s.localStreamRef = NoStream \/ ~p.player
    THEN [s |-> s, task |-> NoTask, res |-> "ok"]
    ELSE LET activeIds == SelectSeq(PlayerIds(current), LAMBDA i : i # selfPlayerId)
         IN  syncLoop(removeStale(s, Range(activeIds)),
                      SelectSeq(activeIds, LAMBDA i : selfPlayerId < i))

\* the reconcile of the client whose participant id is selfPlayerId
syncPeerConnectionsAs(selfPlayerId, s, p, current) ==
  IF ~p.socket \/ s.localStreamRef = NoStream \/ ~p.player
    THEN [s |-> s, task |-> NoTask, res |-> "ok"]
    ELSE LET activeIds == SelectSeq(PlayerIds(current), LAMBDA i : i # selfPlayerId)
         IN  syncLoop(removeStale(s, Range(activeIds)), activeIds)

syncPeerConnections(s, p, current) == syncPeerConnectionsAs(SelfId, s, p, current)

\* the payloads of voice:participants: the participants in ascending id
\* order, each muted as a participant is when it joins
Rosters ==
  {[k \in DOMAIN q |-> Entry(q[k], TRUE)] :
     q \in {r \in UNION {[1..n -> PeerIds \cup {SelfId}] : n \in 0..(MaxPeers + 1)} :
              \A i, j \in DOMAIN r : i < j => r[i] < r[j]}}

\* the call t as one more suspended call beside those of ts
Fresh(ts, t) ==
  LET free == {k \in 0..MaxTasks : [t EXCEPT !.n = k, !.alone = FALSE] \notin ts}
  IN  [t EXCEPT !.n = CHOOSE k \in free : \A j \in free : k <= j]

\* a handler (done = {}) or the continuation of the call done = {t} ended in
\* r: the state, and the task if it suspended again
Suspended(op, r, done) ==
  /\ r.res # "bound"
  /\ LET rest == Disturbed(tasks \ done)
         alone == \A t \in done : t.alone
         sync == op = "voice:participants" \/ \E t \in done : t.kind = "sync"
         s == [r.s EXCEPT !.reconciled =
                 IF ~(sync /\ alone /\ r.task = NoTask /\ r.res = "ok") THEN "no"
                 ELSE IF /\ op = "voice:participants" /\ reconciled # "no"
                         /\ r.s.participants = participants
                   THEN "again" ELSE "once"]
     IN  IF r.task = NoTask THEN Step(op, s, rest)
         ELSE /\ Cardinality(rest) < MaxTasks
              /\ Step(op, s, rest \cup {Fresh(rest, [r.task EXCEPT !.alone = alone])})
  /\ UNCHANGED pendingMic

\* handleParticipants (lines 58-64)
handleParticipantsAs(selfPlayerId, s, p, roster) ==
  LET s1 == [s EXCEPT !.participants = roster,
                      !.dropped = @ \ Ids(roster)]
  IN  IF ~p.player THEN [s |-> s1, task |-> NoTask, res |-> "ok"]
      ELSE syncPeerConnectionsAs(selfPlayerId, s1, p, roster)

handleParticipants(s, p, roster) == handleParticipantsAs(SelfId, s, p, roster)

\* a voice:participants event with a payload of the set R
HandleParticipantsOf(R) ==
  /\ socket
  /\ \E roster \in R :
       Suspended("voice:participants", handleParticipants(Here, Props, roster), {})

HandleParticipants == HandleParticipantsOf(Rosters)

\* createOffer resolved (line 331): setLocalDescription is called
OfferCreated ==
  \E t \in tasks :
    /\ t.kind = "sync" /\ t.pc = "createOffer"
    /\ conns[t.conn].sig \in {"stable", "have-local-offer"}
    /\ Suspended("offerCreated",
                 [s |-> Here, res |-> "ok",
                  task |-> SyncTask("setLocal", t.id, t.conn, t.rest)], {t})

\* setLocalDescription resolved (lines 332-334), then the loop goes on
\* peer.negotiated = true, on the record the task holds: it shows only while
\* that record is the one in peersRef
markNegotiated(s, t) ==
  IF s.peersRef[t.id].conn = t.conn
    THEN [s EXCEPT !.peersRef[t.id].negotiated = TRUE]
    ELSE s

offerSent(s, t) ==
  markNegotiated(Emit([s EXCEPT !.conns[t.conn].sig = "have-local-offer",
                                !.conns[t.conn].local = TRUE,
                                !.conns[t.conn].offers = @ + 1],
                      TRUE, MsgTo("voice:offer", t.id)), t)

LocalDescriptionSet ==
  \E t \in tasks :
    /\ t.kind = "sync" /\ t.pc = "setLocal"
    /\ conns[t.conn].sig \in {"stable", "have-local-offer"}
    /\ Suspended("offerSent", syncLoop(offerSent(Here, t), t.rest), {t})

\* mutant: the rejection ends the reconcile
NegotiationRejected_endsLoop ==
  \E t \in tasks :
    /\ t.kind # "candidate"
    /\ Suspended("rejected", [s |-> Here, task |-> NoTask, res |-> "ok"], {t})

\* the awaited promise rejected: lines 335-337 log it and the loop goes on;
\* handleAnswer has no catch and ends
NegotiationRejected ==
  \E t \in tasks :
    /\ t.kind # "candidate"
    /\ Suspended("rejected",
                 IF t.kind = "sync" THEN syncLoop(Here, t.rest)
                 ELSE [s |-> Here, task |-> NoTask, res |-> "ok"], {t})

\* an operation of a closed connection may never settle
TaskAbandoned ==
  \E t \in tasks :
    /\ ~isOpen(conns[t.conn])
    /\ Suspended("abandoned", [s |-> Here, task |-> NoTask, res |-> "ok"], {t})

\* ---- handleAnswer (lines 88-95) -------------------------------------------
\* mutant: a record is made for an id that has none
handleAnswer_createsRecord(s, from) ==
  LET e == ensurePeerConnection(s, from)
  IN  [s |-> e.s, res |-> e.res,
       task |-> IF e.res = "ok" THEN AnswerTask(from, e.conn) ELSE NoTask]

handleAnswer(s, from) ==
  IF s.peersRef[from] = NoRecord THEN [s |-> s, task |-> NoTask, res |-> "ok"]
  ELSE [s |-> s, task |-> AnswerTask(from, s.peersRef[from].conn), res |-> "ok"]

HandleAnswerFrom(from) ==
  /\ socket
  /\ Suspended("voice:answer", handleAnswer(Here, from), {})

HandleAnswer == \E from \in PeerIds : HandleAnswerFrom(from)
HandleAnswerOfFirst == HandleAnswerFrom(1)

\* setRemoteDescription resolved: the track event fires, then line 94
answerApplied(s, t) ==
  markNegotiated(ontrack([s EXCEPT !.conns[t.conn].sig = "stable"], t.conn), t)

AnswerApplied ==
  \E t \in tasks :
    /\ t.kind = "answer"
    /\ conns[t.conn].sig = "have-local-offer"
    /\ Suspended("answerApplied",
                 [s |-> answerApplied(Here, t), task |-> NoTask, res |-> "ok"], {t})

\* ---- handleOffer (lines 75-86) ---------------------------------------------
\* up to the await of setRemoteDescription
handleOffer(s, p, from) ==
  IF ~p.player \/ ~p.socket \/ s.localStreamRef = NoStream
    THEN [s |-> s, task |-> NoTask, res |-> "ok"]
    ELSE LET e == ensurePeerConnection(s, from)
         IN  [s |-> e.s, res |-> e.res,
              task |-> IF e.res = "ok" THEN OfferTask("setRemote", from, e.conn)
                       ELSE NoTask]

\* a voice:offer event from a sender of the set F
HandleOfferOf(F) ==
  /\ socket
  /\ \E from \in F :
       Suspended("voice:offer", handleOffer(Here, Props, from), {})

HandleOffer == HandleOfferOf(PeerIds)
HandleOfferOfFirst == HandleOfferOf({1})
\* a voice:offer whose fromPlayerId is the local participant's id
HandleOwnOffer == HandleOfferOf({SelfId})

\* setRemoteDescription(offer) resolved (line 81): a pending local offer is
\* rolled back, the remote track arrives, createAnswer is called
remoteOfferSet(s, t) ==
  ontrack([s EXCEPT !.conns[t.conn].sig = "have-remote-offer"], t.conn)

RemoteOfferSet ==
  \E t \in tasks :
    /\ t.kind = "offer" /\ t.pc = "setRemote"
    /\ isOpen(conns[t.conn])
    /\ Suspended("remoteOfferSet",
                 [s |-> remoteOfferSet(Here, t), res |-> "ok",
                  task |-> OfferTask("createAnswer", t.id, t.conn)], {t})

\* createAnswer resolved (line 82): setLocalDescription is called
AnswerCreated ==
  \E t \in tasks :
    /\ t.kind = "offer" /\ t.pc = "createAnswer"
    /\ conns[t.conn].sig = "have-remote-offer"
    /\ Suspended("answerCreated",
                 [s |-> Here, res |-> "ok",
                  task |-> OfferTask("setLocalAnswer", t.id, t.conn)], {t})

\* mutant: the answer goes to the local participant
answerSent_toSelf(s, t) ==
  markNegotiated(Emit([s EXCEPT !.conns[t.conn].sig = "stable",
                                !.conns[t.conn].local = TRUE],
                      TRUE, MsgTo("voice:answer", SelfId)), t)

\* setLocalDescription(answer) resolved (lines 83-85)
answerSent(s, t) ==
  markNegotiated(Emit([s EXCEPT !.conns[t.conn].sig = "stable",
                                !.conns[t.conn].local = TRUE],
                      TRUE, MsgTo("voice:answer", t.id)), t)

AnswerSent ==
  \E t \in tasks :
    /\ t.kind = "offer" /\ t.pc = "setLocalAnswer"
    /\ conns[t.conn].sig = "have-remote-offer"
    /\ Suspended("answerSent",
                 [s |-> answerSent(Here, t), task |-> NoTask, res |-> "ok"], {t})

\* ---- connection.onicecandidate (lines 358-362) ----------------------------
\* candidates are gathered once a local description is set
onicecandidate(s, c) ==
  Emit(s, TRUE, MsgTo("voice:ice-candidate", s.conns[c].target))

OnIceCandidate ==
  /\ \E c \in ConnIds :
       /\ isOpen(conns[c]) /\ conns[c].handlers /\ conns[c].local
       /\ Handled("icecandidate", onicecandidate(Here, c))
  /\ UNCHANGED pendingMic

\* ---- handleCandidate (lines 97-107) ----------------------------------------
CandidateTask(id, c) ==
  [kind |-> "candidate", pc |-> "addIce", id |-> id, conn |-> c, rest |-> <<>>,
   alone |-> TRUE, n |-> 0]

\* up to the await of addIceCandidate; candidate: the payload carries one
\* mutant: a record is made for a sender that has none
handleCandidate_createsRecord(s, from, candidate) ==
  LET e == ensurePeerConnection(s, from)
  IN  [s |-> e.s, res |-> e.res,
       task |-> IF e.res = "ok" /\ candidate THEN CandidateTask(from, e.conn)
                ELSE NoTask]

handleCandidate(s, from, candidate) ==
  IF s.peersRef[from] = NoRecord \/ ~candidate
    THEN [s |-> s, task |-> NoTask, res |-> "ok"]
    ELSE [s |-> s, task |-> CandidateTask(from, s.peersRef[from].conn),
          res |-> "ok"]

HandleCandidateFrom(from) ==
  /\ socket
  /\ \E candidate \in BOOLEAN :
       Suspended("voice:ice-candidate", handleCandidate(Here, from, candidate), {})

HandleCandidate == \E from \in PeerIds : HandleCandidateFrom(from)

\* a connection has a remote description once an offer was set on it or its
\* negotiation was completed
hasRemoteDescription(conn) ==
  conn.sig = "have-remote-offer" \/ (conn.sig = "stable" /\ conn.local)

\* addIceCandidate resolved: the handler ends
CandidateAdded ==
  \E t \in tasks :
    /\ t.kind = "candidate" /\ hasRemoteDescription(conns[t.conn])
    /\ Suspended("candidateAdded",
                 [s |-> Here, task |-> NoTask, res |-> "ok"], {t})

\* addIceCandidate rejected (no remote description yet, a closed connection,
\* a malformed candidate): lines 104-106 log it and the handler ends
CandidateRejected ==
  \E t \in tasks :
    /\ t.kind = "candidate"
    /\ Suspended("candidateRejected",
                 [s |-> Here, task |-> NoTask, res |-> "ok"], {t})

\* ---- connection.onconnectionstatechange (lines 373-388) -------------------
\* what the handler reads in connection.connectionState when the event
\* announcing st is delivered
connectionState(conn, st) == IF conn.sig = "closed" THEN "closed" ELSE st

\* mutant: the record of a lost connection is kept
onconnectionstatechange_keepsRecord(s, c, state) ==
  IF state \in {"failed", "disconnected"}
    THEN [s EXCEPT !.conns[c].sig = "closed"]
    ELSE s

onconnectionstatechange(s, c, state) ==
  IF state \in {"failed", "disconnected"}
    THEN LET id == s.conns[c].target
             s1 == [s EXCEPT !.conns[c].sig = "closed",
                             !.peersRef[id] = NoRecord]
         IN  IF s.remoteStreamRef[id] # NoConn
               THEN [s1 EXCEPT !.remoteStreamRef[id] = NoConn,
                               !.remoteStreams[id] = NoConn]
               ELSE s1
    ELSE s

\* the transports of a connection exist once a local description is set
OnConnectionStateChange ==
  /\ \E c \in ConnIds, st \in {"connected", "disconnected", "failed"} :
       /\ isOpen(conns[c]) /\ conns[c].local
       /\ Handled(st, onconnectionstatechange(Here, c, connectionState(conns[c], st)))
  /\ UNCHANGED pendingMic

\* ---- events of a closed connection ----------------------------------------
\* The browser fires no event on a closed RTCPeerConnection; these steps
\* deliver one all the same, an event that was on its way when close() ran,
\* to the handlers the connection then has.
LateIceCandidate ==
  /\ \E c \in ConnIds :
       /\ conns[c].sig = "closed"
       /\ Handled("lateIceCandidate",
                  IF conns[c].handlers THEN onicecandidate(Here, c) ELSE Here)
  /\ UNCHANGED pendingMic

LateTrack ==
  /\ \E c \in ConnIds :
       /\ conns[c].sig = "closed"
       /\ Handled("lateTrack", ontrack(Here, c))
  /\ UNCHANGED pendingMic

LateConnectionStateChange ==
  /\ \E c \in ConnIds, st \in {"disconnected", "failed"} :
       /\ conns[c].sig = "closed"
       /\ Handled("lateConnectionState",
                  onconnectionstatechange(Here, c, connectionState(conns[c], st)))
  /\ UNCHANGED pendingMic

\* ---- the parent re-renders the panel with other props ---------------------
PropNames == {"socket", "roomCode", "player", "isConnected", "isMatchActive",
              "shouldForceDisconnect"}

\* one prop of the set F changes
SetPropsOf(F) ==
  /\ \E f \in F :
       LET p == [Props EXCEPT ![f] = ~@]
       IN  /\ socket' = p.socket /\ roomCode' = p.roomCode /\ player' = p.player
           /\ isConnected' = p.isConnected /\ isMatchActive' = p.isMatchActive
           /\ shouldForceDisconnect' = p.shouldForceDisconnect
           /\ Commit(collect(RunEffects(Props, Here, p, Here), tasks))
           /\ lastOp' = "props"
  /\ tasks' = Disturbed(tasks)
  /\ UNCHANGED world
  /\ UNCHANGED pendingMic

SetProps == SetPropsOf(PropNames)

\* useRoomSocket (src/unnamed/part_004): the socket reports connect or
\* disconnect, isConnected follows, the socket object stays the same
HandleConnect == socket /\ ~isConnected /\ SetPropsOf({"isConnected"})
HandleDisconnect == socket /\ isConnected /\ SetPropsOf({"isConnected"})
SetMatchProps == SetPropsOf({"isMatchActive", "shouldForceDisconnect"})
SetSessionProps == SetPropsOf({"socket", "shouldForceDisconnect"})

\* ---- specification --------------------------------------------------------
\* the state of a VoicePanel that startVoice has brought online
JoinedState ==
  [voiceStatus |-> "online", manualMuted |-> TRUE, autoMuted |-> FALSE,
   pushActive |-> FALSE, voiceError |-> "none", remoteStreams |-> NoRemote,
   participants |-> <<>>, localStreamRef |-> 1, peersRef |-> NoRecords,
   remoteStreamRef |-> NoRemote, pushReleasedRef |-> FALSE,
   streams |-> [i \in StreamIds |-> IF i = 1 THEN "off" ELSE "none"],
   conns |-> [c \in ConnIds |-> NewConn], emitted |-> <<>>, sent |-> NoSent,
   dropped |-> {}, reconciled |-> "no"]

NoWire == [toPeer |-> 0, toLocal |-> 0, handled |-> {}]

\* useRoomSocket mounted with no room and no player (part_004:14-27)
NoHook ==
  [roomCode |-> "none", player |-> "none", socketRef |-> NoSocket,
   isConnected |-> FALSE, isReconnecting |-> FALSE,
   links |-> [i \in SocketIds |-> "none"]]

\* a page mounted with no room (GameBoardPage.tsx:116-119)
NoPage ==
  [code |-> "none", current |-> NoSocket, socketConnected |-> FALSE,
   sockets |-> [i \in SocketIds |-> "none"], from |-> NoSocket]

\* the sockets are modelled apart from the panel: here they are not opened
AtRest == hook = NoHook /\ page = NoPage

\* no second client is modelled
Alone ==
  /\ peer = [present |-> FALSE, s |-> JoinedState, tasks |-> {}]
  /\ wire = NoWire

InitPanel ==
  /\ voiceStatus = "idle" /\ manualMuted = TRUE /\ autoMuted = FALSE
  /\ pushActive = FALSE /\ voiceError = "none"
  /\ remoteStreams = NoRemote /\ remoteStreamRef = NoRemote /\ peersRef = NoRecords
  /\ participants = <<>> /\ dropped = {} /\ reconciled = "no"
  /\ localStreamRef = NoStream /\ pushReleasedRef = FALSE
  /\ streams = [i \in StreamIds |-> "none"]
  /\ conns = [c \in ConnIds |-> NewConn]
  /\ pendingMic = 0 /\ tasks = {}
  /\ emitted = <<>> /\ sent = NoSent /\ lastOp = "mount"
  /\ Alone /\ AtRest

\* the session and its flags; the room, the connection and the match are up
Init ==
  /\ socket \in BOOLEAN /\ player = TRUE
  /\ shouldForceDisconnect \in BOOLEAN
  /\ roomCode = TRUE /\ isConnected = TRUE /\ isMatchActive = TRUE
  /\ InitPanel

Next ==
  \/ StartVoice \/ MicGranted \/ MicDenied \/ Leave
  \/ HandleInactive \/ HandleShutdown \/ HandleStatus
  \/ HandleToggleMute \/ HandlePushStart \/ HandlePushEnd
  \/ HandleRelease \/ HandleVisibility \/ SetSessionProps

Spec == Init /\ [][Next]_vars

\* the mesh: the peer records of one session, from the moment startVoice
\* has brought it online (the state Spec reaches by StartVoice, MicGranted)
Joined ==
  /\ socket = TRUE /\ player = TRUE /\ shouldForceDisconnect = FALSE
  /\ roomCode = TRUE /\ isConnected = TRUE /\ isMatchActive = TRUE
  /\ voiceStatus = "online" /\ manualMuted = TRUE /\ autoMuted = FALSE
  /\ pushActive = FALSE /\ voiceError = "none"
  /\ remoteStreams = NoRemote /\ remoteStreamRef = NoRemote /\ peersRef = NoRecords
  /\ participants = <<>> /\ dropped = {} /\ reconciled = "no"
  /\ localStreamRef = 1 /\ pushReleasedRef = FALSE
  /\ streams = [i \in StreamIds |-> IF i = 1 THEN "off" ELSE "none"]
  /\ conns = [c \in ConnIds |-> NewConn]
  /\ pendingMic = 0 /\ tasks = {}
  /\ emitted = <<Msg("voice:ready", "none")>> /\ sent = NoSent
  /\ lastOp = "micGranted"
  /\ AtRest

InitMesh == Joined /\ Alone

SetSocket == SetPropsOf({"socket"})

\* the rosters of a room the local participant is in
RoomRosters == {q \in Rosters : q # <<>> /\ q[1].playerId = SelfId}
HandleRoomParticipants == HandleParticipantsOf(RoomRosters)

\* the rosters of a room in which the local participant is alone or with
\* every other participant
EdgeRosters == {q \in RoomRosters : Ids(q) \in {{SelfId}, AllIds}}
HandleEdgeParticipants == HandleParticipantsOf(EdgeRosters)

NextMesh ==
  \/ Leave \/ HandleShutdown
  \/ HandleEdgeParticipants \/ OfferCreated \/ LocalDescriptionSet
  \/ NegotiationRejected \/ TaskAbandoned
  \/ HandleAnswer \/ AnswerApplied

SpecMesh == InitMesh /\ [][NextMesh]_vars

\* the reconciles of one online session, under every roster
NextReconcile ==
  \/ HandleParticipants \/ OfferCreated \/ LocalDescriptionSet
  \/ NegotiationRejected \/ OnIceCandidate

SpecReconcile == InitMesh /\ [][NextReconcile]_vars

\* the inbound offers of one online session
NextOffer ==
  \/ HandleOffer \/ RemoteOfferSet \/ AnswerCreated \/ AnswerSent
  \/ NegotiationRejected \/ Leave

SpecOffer == InitMesh /\ [][NextOffer]_vars

\* the session from mount, with its socket, its match and its roster
InitSession ==
  /\ socket = TRUE /\ player = TRUE /\ shouldForceDisconnect = FALSE
  /\ roomCode = TRUE /\ isConnected = TRUE /\ isMatchActive = TRUE
  /\ InitPanel

NextSession ==
  \/ StartVoice \/ MicGranted \/ MicDenied
  \/ HandleInactive \/ HandleShutdown
  \/ SetMatchProps \/ HandleConnect \/ HandleDisconnect
  \/ HandleOfferOfFirst \/ RemoteOfferSet \/ NegotiationRejected

SpecSession == InitSession /\ [][NextSession]_vars

\* the teardowns the server forces on a session with flags and peers
NextTeardown ==
  \/ StartVoice \/ MicGranted \/ MicDenied
  \/ HandleInactive \/ HandleShutdown
  \/ HandleToggleMute \/ HandlePushStart
  \/ HandleOfferOfFirst \/ RemoteOfferSet \/ NegotiationRejected

SpecTeardown == InitSession /\ [][NextTeardown]_vars

\* the mesh of one online session under rosters, the inbound offers of one
\* peer, connection failures and a leave
NextChurn ==
  \/ HandleEdgeParticipants \/ OfferCreated \/ LocalDescriptionSet
  \/ HandleOfferOfFirst \/ RemoteOfferSet \/ NegotiationRejected
  \/ OnConnectionStateChange \/ Leave

SpecChurn == InitMesh /\ [][NextChurn]_vars

\* the inbound candidates of one online session whose offers are answered
NextCandidate ==
  \/ HandleEdgeParticipants \/ OfferCreated \/ LocalDescriptionSet
  \/ HandleAnswer \/ AnswerApplied
  \/ HandleCandidate \/ CandidateAdded \/ CandidateRejected

SpecCandidate == InitMesh /\ [][NextCandidate]_vars

\* the session from mount through leaves and joins, with the inbound offers
\* of one peer and the events of the connections a leave closed
NextRejoin ==
  \/ StartVoice \/ MicGranted \/ MicDenied \/ Leave \/ HandleShutdown
  \/ HandleOfferOfFirst \/ RemoteOfferSet \/ AnswerCreated \/ AnswerSent
  \/ NegotiationRejected
  \/ LateIceCandidate \/ LateTrack \/ LateConnectionStateChange

SpecRejoin == InitSession /\ [][NextRejoin]_vars

\* the participant registry of a mounted panel: snapshots with unique ids,
\* in any order, and the status of any participant
Snapshots ==
  {q \in UNION {[1..n -> Entries] : n \in 0..(MaxPeers + 1)} :
     \A i, j \in DOMAIN q : i # j => q[i].playerId # q[j].playerId}

HandleSnapshot == HandleParticipantsOf(Snapshots)

NextRegistry == HandleSnapshot \/ HandleAnyStatus

SpecRegistry == InitSession /\ [][NextRegistry]_vars

\* ---- useRoomSocket (src/unnamed/part_004) ----------------------------------
\* links: per socket "none" (not created), "connecting", "connected" (its
\* last event was connect or reconnect), "closed" (disconnect() was called)
RoomCodes == {"none", "a", "b"}
Players == {"none", "p", "q"}

\* lines 58-67: the handlers are taken off, then the socket is disconnected
hookCleanup(h) ==
  IF h.socketRef = NoSocket THEN h
  ELSE [h EXCEPT !.links[h.socketRef] = "closed", !.socketRef = NoSocket]

FreeSockets(m) == {i \in SocketIds : m[i] = "none"}

\* lines 19-56, with id the socket createRoomSocket returns
hookEffect(h, id) ==
  IF h.roomCode = "none" \/ h.player = "none"
    THEN [hookCleanup(h) EXCEPT !.isConnected = FALSE, !.isReconnecting = FALSE]
    ELSE [h EXCEPT !.socketRef = id, !.links[id] = "connecting"]

\* the hook is rendered with other arguments: the dependencies of line 68
\* changed, the cleanup of the last effect runs, then the effect
HookProps ==
  /\ \E r \in RoomCodes, p \in Players :
       /\ <<r, p>> # <<hook.roomCode, hook.player>>
       /\ FreeSockets(hook.links) # {}
       /\ LET h == hookCleanup([hook EXCEPT !.roomCode = r, !.player = p])
              id == CHOOSE x \in FreeSockets(hook.links) :
                      \A y \in FreeSockets(hook.links) : x <= y
          IN  hook' = hookEffect(h, id)
  /\ lastOp' = "hook:props"
  /\ UNCHANGED <<props, panel, pendingMic, tasks, peer, wire, page>>

\* an event of the socket that has the handlers on: the one of the last effect
HookEvent(op, from, to, h) ==
  /\ hook.socketRef # NoSocket
  /\ hook.links[hook.socketRef] = from
  /\ hook' = [h EXCEPT !.links[hook.socketRef] = to]
  /\ lastOp' = op
  /\ UNCHANGED <<props, panel, pendingMic, tasks, peer, wire, page>>

\* connect, and the manager's reconnect (lines 32-35)
HookConnect ==
  HookEvent("hook:connect", "connecting", "connected",
            [hook EXCEPT !.isConnected = TRUE, !.isReconnecting = FALSE])

\* disconnect (lines 37-39): the socket goes on to reconnect
HookDisconnect ==
  HookEvent("hook:disconnect", "connected", "connecting",
            [hook EXCEPT !.isConnected = FALSE])

\* reconnect_attempt (lines 41-43)
HookReconnectAttempt ==
  HookEvent("hook:reconnect_attempt", "connecting", "connecting",
            [hook EXCEPT !.isReconnecting = TRUE])

\* connect_error, and the manager's error (lines 45-47)
HookConnectError ==
  HookEvent("hook:connect_error", "connecting", "connecting",
            [hook EXCEPT !.isConnected = FALSE])

NextHook ==
  \/ HookProps \/ HookConnect \/ HookDisconnect
  \/ HookReconnectAttempt \/ HookConnectError

\* ---- connectToRoomSocket (src/unnamed/part_000:144-177) -------------------
\* sockets: per WebSocket "none" (not created) or its readyState
\* notifyStatus(status) of the socket id
notifyStatus(pg, id, status) == [pg EXCEPT !.socketConnected = status, !.from = id]

\* lines 150-157: the WebSocket id is constructed, its listeners added
connectToRoomSocket(pg, id) ==
  [pg EXCEPT !.current = id, !.sockets[id] = "connecting"]

\* lines 173-176: the function returned for the socket of the last effect
disconnect(pg) ==
  IF pg.current = NoSocket THEN pg
  ELSE [notifyStatus(pg, pg.current, FALSE)
          EXCEPT !.sockets[pg.current] =
                   IF @ \in {"connecting", "open"} THEN "closing" ELSE @,
                 !.current = NoSocket]

PageStep(op, pg) ==
  /\ page' = pg
  /\ lastOp' = op
  /\ UNCHANGED <<props, panel, pendingMic, tasks, peer, wire, hook>>

\* the page's room changes (GameBoardPage.tsx:116-131): the cleanup of the
\* last effect calls disconnect, the effect connects to the new room
PageRoom ==
  \E code \in RoomCodes :
    /\ code # page.code
    /\ FreeSockets(page.sockets) # {}
    /\ LET pg == [disconnect(page) EXCEPT !.code = code]
           id == CHOOSE x \in FreeSockets(page.sockets) :
                   \A y \in FreeSockets(page.sockets) : x <= y
       IN  PageStep("page:room",
                    IF code = "none" THEN pg ELSE connectToRoomSocket(pg, id))

\* the listeners of lines 159-161; they stay on the socket for its life
WsOpen ==
  \E id \in SocketIds :
    /\ page.sockets[id] = "connecting"
    /\ PageStep("ws:open", notifyStatus([page EXCEPT !.sockets[id] = "open"], id, TRUE))

WsClose ==
  \E id \in SocketIds :
    /\ page.sockets[id] \in {"connecting", "open", "closing"}
    /\ PageStep("ws:close",
                notifyStatus([page EXCEPT !.sockets[id] = "closed"], id, FALSE))

\* an error is followed by the close of the socket
WsError ==
  \E id \in SocketIds :
    /\ page.sockets[id] \in {"connecting", "open", "closing"}
    /\ PageStep("ws:error",
                notifyStatus([page EXCEPT !.sockets[id] = "closing"], id, FALSE))

NextPage == PageRoom \/ WsOpen \/ WsClose \/ WsError

\* ---- the cleanup of the mount effect (lines 196-201) ---------------------
\* every connection of the table is closed; the table, the handlers and the
\* local stream are left as they are
unmount(s) ==
  [s EXCEPT !.conns = [c \in ConnIds |->
                         IF \E i \in AllIds : s.peersRef[i].conn = c
                           THEN [s.conns[c] EXCEPT !.sig = "closed"]
                           ELSE s.conns[c]]]

Mounted == lastOp # "unmount"

Unmount ==
  /\ Mounted
  /\ Handled("unmount", unmount(Here))
  /\ UNCHANGED pendingMic

\* a session from mount to the unmount of the component, after which none
\* of its handlers runs
NextDispose ==
  \/ Mounted /\ StartVoice
  \/ Mounted /\ MicGranted
  \/ Mounted /\ MicDenied
  \/ Mounted /\ HandleRoomParticipants
  \/ Mounted /\ OfferCreated
  \/ Mounted /\ LocalDescriptionSet
  \/ Unmount

SpecDispose == InitSession /\ [][NextDispose]_vars

\* the sockets of the pages, the panel left as it is mounted
SpecHook == InitSession /\ [][NextHook]_vars
SpecPage == InitSession /\ [][NextPage]_vars

\* the negotiations of one online session, each of which may fail
NextFailure ==
  \/ HandleEdgeParticipants \/ OfferCreated \/ LocalDescriptionSet
  \/ HandleOfferOfFirst \/ RemoteOfferSet \/ AnswerCreated \/ AnswerSent
  \/ HandleAnswerOfFirst \/ AnswerApplied \/ NegotiationRejected

SpecFailure == InitMesh /\ [][NextFailure]_vars

\* the reconciles of one online session and the inbound offers that name the
\* local participant as their sender
NextOwnOffer ==
  \/ HandleRoomParticipants \/ OfferCreated \/ LocalDescriptionSet
  \/ HandleOwnOffer \/ RemoteOfferSet \/ AnswerCreated \/ AnswerSent

SpecOwnOffer == InitMesh /\ [][NextOwnOffer]_vars

\* ---- two clients of one room ----------------------------------------------
\* the second client runs the same component with PeerId as its own id; its
\* session is online and its props stay as they are
PeerProps ==
  [socket |-> TRUE, roomCode |-> TRUE, player |-> TRUE, isConnected |-> TRUE,
   isMatchActive |-> TRUE, shouldForceDisconnect |-> FALSE]

PeerHere == [peer.s EXCEPT !.emitted = <<>>, !.reconciled = "no"]

\* a handler of the second client (done = {}) or the continuation of its call
\* done = {t} ended in r; got: it handled a voice:offer of the local client
PeerSuspended(op, r, done, got) ==
  /\ peer.present
  /\ r.res # "bound"
  /\ LET rest == Disturbed(peer.tasks \ done)
         ts == IF r.task = NoTask THEN rest
               ELSE rest \cup {Fresh(rest, [r.task EXCEPT !.alone = FALSE])}
     IN  /\ r.task # NoTask => Cardinality(rest) < MaxTasks
         /\ peer' = [peer EXCEPT !.s = collect(r.s, ts), !.tasks = ts]
         /\ wire' = [toPeer |-> IF got THEN wire.toPeer - 1 ELSE wire.toPeer,
                     toLocal |-> wire.toLocal + Offers(r.s.emitted, SelfId),
                     handled |-> IF got THEN wire.handled \cup {PeerId}
                                 ELSE wire.handled]
  /\ lastOp' = op
  /\ UNCHANGED <<props, panel, pendingMic, tasks, hook, page>>

\* the roster of a room of the two clients
PairRosters == {q \in Rosters : Ids(q) = {SelfId, PeerId}}
HandlePairParticipants == HandleParticipantsOf(PairRosters)

PeerHandleParticipants ==
  \E roster \in PairRosters :
    PeerSuspended("peer:participants",
                  handleParticipantsAs(PeerId, PeerHere, PeerProps, roster), {}, FALSE)

PeerOfferCreated ==
  \E t \in peer.tasks :
    /\ t.kind = "sync" /\ t.pc = "createOffer"
    /\ peer.s.conns[t.conn].sig \in {"stable", "have-local-offer"}
    /\ PeerSuspended("peer:offerCreated",
                     [s |-> PeerHere, res |-> "ok",
                      task |-> SyncTask("setLocal", t.id, t.conn, t.rest)], {t}, FALSE)

PeerLocalDescriptionSet ==
  \E t \in peer.tasks :
    /\ t.kind = "sync" /\ t.pc = "setLocal"
    /\ peer.s.conns[t.conn].sig \in {"stable", "have-local-offer"}
    /\ PeerSuspended("peer:offerSent", syncLoop(offerSent(PeerHere, t), t.rest),
                     {t}, FALSE)

\* the relay delivers a voice:offer of the local client to the second one
PeerHandleOffer ==
  /\ wire.toPeer > 0
  /\ PeerSuspended("peer:offer", handleOffer(PeerHere, PeerProps, SelfId), {}, TRUE)

PeerRemoteOfferSet ==
  \E t \in peer.tasks :
    /\ t.kind = "offer" /\ t.pc = "setRemote"
    /\ isOpen(peer.s.conns[t.conn])
    /\ PeerSuspended("peer:remoteOfferSet",
                     [s |-> remoteOfferSet(PeerHere, t), res |-> "ok",
                      task |-> OfferTask("createAnswer", t.id, t.conn)], {t}, FALSE)

PeerAnswerCreated ==
  \E t \in peer.tasks :
    /\ t.kind = "offer" /\ t.pc = "createAnswer"
    /\ peer.s.conns[t.conn].sig = "have-remote-offer"
    /\ PeerSuspended("peer:answerCreated",
                     [s |-> PeerHere, res |-> "ok",
                      task |-> OfferTask("setLocalAnswer", t.id, t.conn)], {t}, FALSE)

PeerAnswerSent ==
  \E t \in peer.tasks :
    /\ t.kind = "offer" /\ t.pc = "setLocalAnswer"
    /\ peer.s.conns[t.conn].sig = "have-remote-offer"
    /\ PeerSuspended("peer:answerSent",
                     [s |-> answerSent(PeerHere, t), task |-> NoTask, res |-> "ok"],
                     {t}, FALSE)

\* the relay delivers a voice:offer of the second client to the local one
OfferDelivered == wire.toLocal > 0 /\ HandleOfferOf({PeerId})

InitGlare ==
  /\ Joined
  /\ peer = [present |-> TRUE, s |-> JoinedState, tasks |-> {}]
  /\ wire = NoWire

NextGlare ==
  \/ HandlePairParticipants \/ OfferCreated \/ LocalDescriptionSet
  \/ OfferDelivered \/ RemoteOfferSet \/ AnswerCreated \/ AnswerSent
  \/ PeerHandleParticipants \/ PeerOfferCreated \/ PeerLocalDescriptionSet
  \/ PeerHandleOffer \/ PeerRemoteOfferSet \/ PeerAnswerCreated \/ PeerAnswerSent

SpecGlare == InitGlare /\ [][NextGlare]_vars

\* ==== the claims ==========================================================
Ready == Msg("voice:ready", "none")
Count(q, m) == Cardinality({i \in DOMAIN q : q[i] = m})
DefaultFlags == manualMuted /\ ~autoMuted /\ ~pushActive
flags == <<manualMuted, autoMuted, pushActive>>

\* C1: the status changes only along idle->starting, starting->online,
\* starting->idle and online->idle; in particular never idle->online.
C1_StatusEdges ==
  [][voiceStatus' # voiceStatus =>
       <<voiceStatus, voiceStatus'>> \in
         {<<"idle", "starting">>, <<"starting", "online">>,
          <<"starting", "idle">>, <<"online", "idle">>}]_vars

\* C2: while online the local track is enabled exactly when
\* NOT autoMuted AND (NOT manualMuted OR pushActive); a push-to-talk press
\* under a manual mute enables the track and the release disables it again.
C2_TrackFollowsFlags ==
  voiceStatus = "online" =>
    /\ localStreamRef # NoStream
    /\ streams[localStreamRef] \in {"on", "off"}
    /\ streams[localStreamRef] = "on" <=>
         (~autoMuted /\ (~manualMuted \/ pushActive))
    /\ (lastOp = "pushStart" /\ socket /\ manualMuted /\ ~autoMuted) =>
         streams[localStreamRef] = "on"
    /\ (lastOp = "windowRelease" /\ manualMuted) =>
         streams[localStreamRef] = "off"

C2_Witness ==
  /\ voiceStatus = "online" /\ lastOp = "pushStart"
  /\ manualMuted /\ ~autoMuted /\ pushActive
  /\ streams[localStreamRef] = "on"

\* C3: a leave (in SpecMesh the Leave button or voice:shutdown) taken from
\* online ends with no PeerRecord, every connection that had a record
\* closed, no remote stream in the ref map or in the rendered state, and
\* status idle.
LeaveStep ==
  \/ lastOp' \in {"leave", "voice:shutdown", "voice:inactive"}
  \/ lastOp' = "props" /\ socket /\ ~socket'

C3_LeaveClosesAll ==
  [][(voiceStatus = "online" /\ LeaveStep) =>
       /\ peersRef' = NoRecords
       /\ \A i \in PeerIds :
            peersRef[i] # NoRecord => ~isOpen(conns'[peersRef[i].conn])
       /\ \A c \in ConnIds : ~isOpen(conns'[c])
       /\ remoteStreamRef' = NoRemote /\ remoteStreams' = NoRemote
       /\ voiceStatus' = "idle"]_vars

\* a leave that ran while an offer was being negotiated
C3_Witness ==
  /\ lastOp = "leave" /\ voiceStatus = "idle" /\ peersRef = NoRecords
  /\ \E t \in tasks : t.kind = "sync" /\ conns[t.conn].sig = "closed"

\* C4: a leave stops the local stream and drops it, so the local stream is
\* held only while the status is starting or online, never while idle.
C4_NoStreamWhileIdle ==
  voiceStatus = "idle" => localStreamRef = NoStream

\* C5: a join that does not succeed (a precondition unmet, or the microphone
\* refused) leaves the session idle with an error shown, no local stream,
\* no voice:ready and no PeerRecord; an unmet precondition requests no
\* microphone.
C5_FailedJoinLeavesIdle ==
  [][/\ (lastOp' = "startVoice" /\ voiceStatus = "idle" /\ ~canJoin(Props)) =>
          /\ pendingMic' = pendingMic
          /\ voiceStatus' = "idle" /\ voiceError' # "none"
          /\ localStreamRef' = NoStream /\ peersRef' = NoRecords
          /\ Count(emitted', Ready) = 0
     /\ lastOp' = "micDenied" =>
          /\ voiceStatus' = "idle" /\ voiceError' # "none"
          /\ localStreamRef' = NoStream /\ peersRef' = NoRecords
          /\ Count(emitted', Ready) = 0]_vars

\* C6: startVoice called while the status is starting or online requests no
\* microphone, emits nothing and leaves the session (status, flags, local
\* stream, tracks, peer records, remote streams) as it was.
C6_JoinWhileActiveIsNoOp ==
  [][(lastOp' = "startVoice" /\ voiceStatus # "idle") =>
       /\ pendingMic' = pendingMic
       /\ emitted' = <<>>
       /\ UNCHANGED <<voiceStatus, flags, localStreamRef, streams,
                      peersRef, conns, remoteStreamRef, remoteStreams>>]_vars

C6_Witness == lastOp = "startVoice" /\ voiceStatus = "online"

\* C7: when getUserMedia resolves, exactly one voice:ready is emitted and, if
\* the session is then online, the flags are the defaults and the captured
\* track is disabled; voice:ready is emitted by nothing else, and every step
\* into online emits it.
C7_GrantAnnouncesReady ==
  [][/\ lastOp' = "micGranted" =>
          /\ Count(emitted', Ready) = 1
          /\ voiceStatus' = "online" =>
               /\ manualMuted' /\ ~autoMuted' /\ ~pushActive'
               /\ localStreamRef' # NoStream
               /\ streams'[localStreamRef'] = "off"
     /\ Count(emitted', Ready) > 0 => lastOp' = "micGranted"
     /\ (voiceStatus # "online" /\ voiceStatus' = "online") =>
          Count(emitted', Ready) = 1]_vars

C7_Witness ==
  /\ lastOp = "micGranted" /\ voiceStatus = "online" /\ DefaultFlags
  /\ streams[localStreamRef] = "off" /\ emitted = <<Ready>>

\* C8: while the status is not online, a manual mute toggle, a push-to-talk
\* press or release and a visibility change leave the three flags as they
\* were and emit nothing.
FlagOps == {"toggleMute", "pushStart", "pushEnd", "windowRelease", "visibility"}

C8_FlagOpsNeedOnline ==
  [][(voiceStatus # "online" /\ lastOp' \in FlagOps) =>
       (UNCHANGED flags /\ emitted' = <<>>)]_vars

\* C9: while online a local flag change is broadcast with the new value
\* (voice:mute, voice:push-to-talk, voice:auto-mute), and the value last
\* broadcast for a flag is the flag's local value.
C9_FlagChangesBroadcast ==
  [][/\ voiceStatus = "online" =>
          /\ (lastOp' = "toggleMute" /\ manualMuted' # manualMuted) =>
               emitted' = <<Msg("voice:mute", B2S(manualMuted'))>>
          /\ (lastOp' = "pushStart" /\ pushActive' # pushActive) =>
               emitted' = <<Msg("voice:push-to-talk", "true")>> /\ pushActive'
          /\ (lastOp' \in {"pushEnd", "windowRelease"} /\ pushActive' # pushActive) =>
               emitted' = <<Msg("voice:push-to-talk", "false")>> /\ ~pushActive'
          /\ (lastOp' = "visibility" /\ autoMuted' # autoMuted) =>
               emitted' = <<Msg("voice:auto-mute", B2S(autoMuted'))>>
     /\ voiceStatus' = "online" =>
          /\ sent'.mute \in {"none", B2S(manualMuted')}
          /\ sent'.push \in {"none", B2S(pushActive')}
          /\ sent'.auto \in {"none", B2S(autoMuted')}]_vars

C9_Witness ==
  /\ voiceStatus = "online" /\ lastOp = "toggleMute" /\ ~manualMuted
  /\ emitted = <<Msg("voice:mute", "false")>>
  /\ sent = [mute |-> "false", auto |-> "true", push |-> "false"]

\* C10: a visibility change leaves manualMuted and pushActive as they were, a
\* manual mute toggle leaves autoMuted and pushActive, a push-to-talk press
\* or release leaves manualMuted and autoMuted.
C10_FlagsIndependent ==
  [][/\ lastOp' = "visibility" => UNCHANGED <<manualMuted, pushActive>>
     /\ lastOp' = "toggleMute" => UNCHANGED <<autoMuted, pushActive>>
     /\ lastOp' \in {"pushStart", "pushEnd", "windowRelease"} =>
          UNCHANGED <<manualMuted, autoMuted>>]_vars

C10_Witness ==
  /\ lastOp = "visibility" /\ voiceStatus = "online"
  /\ autoMuted /\ ~manualMuted /\ pushActive

Keys(recs) == {i \in AllIds : recs[i] # NoRecord}
TornDown == voiceStatus = "idle" /\ peersRef = NoRecords /\ localStreamRef = NoStream
Answer(i) == MsgTo("voice:answer", i)
\* the calls that a handler began in the step (those suspended before it
\* have seen another handler run)
Begun == {t \in tasks' : t.alone /\ t.pc \in {"createOffer", "setRemote"}}
SameConnections ==
  /\ peersRef' = peersRef
  /\ \A c \in ConnIds : isOpen(conns'[c]) <=> isOpen(conns[c])

\* C11: when the match-active signal (the prop isMatchActive) goes false
\* while the session is starting or online, the step ends with the session
\* idle, no PeerRecord and no local stream.
C11_MatchEndTearsDown ==
  [][(isMatchActive /\ ~isMatchActive' /\ voiceStatus # "idle") => TornDown']_vars

\* C12: when the signaling channel disconnects (isConnected goes false)
\* while the session is starting or online, the step ends with the session
\* idle, no PeerRecord and no local stream.
C12_DisconnectTearsDown ==
  [][(isConnected /\ ~isConnected' /\ voiceStatus # "idle") => TornDown']_vars

\* C13: after voice:shutdown in any status, and after voice:inactive in
\* status starting or online, the status is idle, the flags are the
\* defaults, and there is no local stream, no PeerRecord, no remote stream.
C13_ServerTeardownResets ==
  [][(\/ lastOp' = "voice:shutdown"
      \/ lastOp' = "voice:inactive" /\ voiceStatus # "idle") =>
       /\ TornDown' /\ DefaultFlags'
       /\ remoteStreamRef' = NoRemote /\ remoteStreams' = NoRemote
       /\ \A c \in ConnIds : ~isOpen(conns'[c])]_vars

\* voice:inactive ended a session that held a peer's remote stream
C13_Witness ==
  /\ lastOp = "voice:inactive" /\ voiceStatus = "idle" /\ voiceError = "inactive"
  /\ \E t \in tasks : t.pc = "createAnswer" /\ conns[t.conn].sig = "closed"

\* C14: while the status is idle or starting there is no PeerRecord.
C14_NoRecordUnlessOnline ==
  voiceStatus \in {"idle", "starting"} => peersRef = NoRecords

\* C15: when a reconcile has run to its end while online with nothing else
\* running in between, the PeerRecords are those of the roster's ids other
\* than the local one, and a connection is open only if a record holds it.
C15_ReconcileMatchesRoster ==
  (reconciled # "no" /\ voiceStatus = "online") =>
    /\ Keys(peersRef) = Ids(participants) \ {SelfId}
    /\ \A c \in ConnIds :
         isOpen(conns[c]) => \E i \in AllIds : peersRef[i].conn = c

\* a reconcile that removed the record of 1 and created and offered that of 2
C15_Witness ==
  /\ reconciled = "once" /\ lastOp = "offerSent" /\ Keys(peersRef) = {2}
  /\ 1 \in dropped /\ emitted = <<MsgTo("voice:offer", 2)>>

\* C16 as stated: a second reconcile of the same roster, run when the first
\* has ended, creates and closes no connection, removes no record and
\* begins no offer.
SecondReconcile ==
  /\ reconciled # "no" /\ voiceStatus = "online"
  /\ lastOp' = "voice:participants" /\ participants' = participants

C17_OneOfferPerRecord ==
  \A i \in Keys(peersRef) : conns[peersRef[i].conn].offers <= 1

\* C18: no signaling message is sent to a peer whose record a reconcile
\* removed, as long as the peer stays absent from the rosters.
C18_NoMessageToDroppedPeer ==
  \A k \in DOMAIN emitted : emitted[k].target \notin dropped

\* C19: while online a voice:offer from X leaves a PeerRecord for X (the
\* one there was, if any); the voice:answer is sent to X, once, when the
\* remote description and then the local answer have been set, and the
\* record is marked negotiated.
C19_OfferIsAnswered ==
  [][/\ (lastOp' = "voice:offer" /\ voiceStatus = "online") =>
          /\ emitted' = <<>>
          /\ \E t \in Begun :
               /\ t.kind = "offer" /\ Begun = {t}
               /\ peersRef'[t.id] # NoRecord /\ peersRef'[t.id].conn = t.conn
               /\ peersRef[t.id] # NoRecord => peersRef'[t.id] = peersRef[t.id]
               /\ \A i \in AllIds \ {t.id} : peersRef'[i] = peersRef[i]
     /\ lastOp' = "answerSent" =>
          \E t \in tasks :
            /\ t.kind = "offer" /\ t.pc = "setLocalAnswer"
            /\ conns[t.conn].sig = "have-remote-offer"
            /\ emitted' = <<Answer(t.id)>>
            /\ conns'[t.conn].sig = "stable"
            /\ peersRef'[t.id] = [conn |-> t.conn, negotiated |-> TRUE]
            /\ Cardinality(tasks') = Cardinality(tasks) - 1
     /\ (\E k \in DOMAIN emitted' : emitted'[k].type = "voice:answer") =>
          lastOp' = "answerSent"]_vars

C19_Witness ==
  /\ lastOp = "answerSent" /\ voiceStatus = "online"
  /\ emitted = <<Answer(1)>> /\ peersRef[1].negotiated
  /\ remoteStreams[1] = peersRef[1].conn

\* C20: a voice:answer from an id without a PeerRecord changes nothing and
\* emits nothing; the answer of an existing record sets the remote
\* description and marks the record negotiated, the records staying the same.
C20_AnswerNeedsRecord ==
  [][/\ \A from \in PeerIds :
          (peersRef[from] = NoRecord /\ HandleAnswerFrom(from)) =>
            /\ emitted' = <<>> /\ Begun = {} /\ conns' = conns
            /\ UNCHANGED <<peersRef, remoteStreamRef, remoteStreams,
                           voiceStatus, flags, localStreamRef, streams,
                           participants>>
     /\ lastOp' = "answerApplied" =>
          \E t \in tasks :
            /\ t.kind = "answer" /\ conns[t.conn].sig = "have-local-offer"
            /\ conns'[t.conn].sig = "stable"
            /\ peersRef'[t.id] = [conn |-> t.conn, negotiated |-> TRUE]
            /\ Keys(peersRef') = Keys(peersRef)]_vars

\* the answer to an offer arrived after its peer had left the room and the
\* record was closed: it was dropped
C20_Witness ==
  /\ lastOp = "voice:answer" /\ voiceStatus = "online"
  /\ Keys(peersRef) = {} /\ Ids(participants) = {SelfId}
  /\ \E c \in ConnIds : conns[c].sig = "closed" /\ conns[c].offers > 0

\* C21: a voice:ice-candidate from an id without a PeerRecord creates no
\* record, no connection and no pending add; a rejected addIceCandidate
\* leaves every record and connection as it was and the session online.
C21_CandidateFailureIsHarmless ==
  [][/\ \A from \in PeerIds :
          (peersRef[from] = NoRecord /\ HandleCandidateFrom(from)) =>
            /\ emitted' = <<>> /\ SameConnections
            /\ \A t \in tasks' : ~t.alone
            /\ UNCHANGED <<remoteStreamRef, remoteStreams,
                           voiceStatus, localStreamRef>>
     /\ lastOp' = "candidateRejected" =>
          /\ emitted' = <<>> /\ SameConnections
          /\ UNCHANGED <<remoteStreamRef, remoteStreams,
                         voiceStatus, flags, localStreamRef, streams>>]_vars

\* a candidate for 1 was rejected: 1's connection has no remote description
C21_Witness ==
  /\ lastOp = "candidateRejected" /\ voiceStatus = "online"
  /\ Keys(peersRef) = PeerIds
  /\ ~hasRemoteDescription(conns[peersRef[1].conn])
  /\ ~\E t \in tasks : t.kind = "candidate"

\* C22: when an open connection reports failed or disconnected, it is
\* closed, the record and the remote stream of its participant are removed,
\* and the status, the local stream and every other record, connection and
\* remote stream stay as they were; another state removes nothing.
Lost(c) == isOpen(conns[c]) /\ ~isOpen(conns'[c])

C22_LostConnectionIsRemoved ==
  [][/\ lastOp' \in {"failed", "disconnected"} =>
          \E c \in ConnIds :
            LET X == conns[c].target
            IN  /\ Lost(c) /\ peersRef[X].conn = c
                /\ peersRef'[X] = NoRecord
                /\ remoteStreamRef'[X] = NoConn /\ remoteStreams'[X] = NoConn
                /\ \A d \in ConnIds \ {c} : isOpen(conns'[d]) <=> isOpen(conns[d])
                /\ \A i \in AllIds \ {X} :
                     /\ peersRef'[i] = peersRef[i]
                     /\ remoteStreamRef'[i] = remoteStreamRef[i]
                     /\ remoteStreams'[i] = remoteStreams[i]
                /\ emitted' = <<>>
                /\ UNCHANGED <<voiceStatus, flags, localStreamRef, streams>>
     /\ lastOp' = "connected" =>
          /\ SameConnections
          /\ UNCHANGED <<remoteStreamRef, remoteStreams, voiceStatus>>]_vars

\* the connection of 2, still in the roster, failed; 1 keeps its stream
C22_Witness ==
  /\ lastOp = "failed" /\ voiceStatus = "online"
  /\ peersRef[2] = NoRecord /\ 2 \in Ids(participants)
  /\ peersRef[1] # NoRecord /\ remoteStreams[1] = peersRef[1].conn
\* C23: every remote stream, in the ref map and in the rendered state, is
\* that of a participant with a PeerRecord: an entry is made only for an id
\* that has a record and goes when the record goes (reconcile, connection
\* failure, leave).
StreamKeys(m) == {i \in AllIds : m[i] # NoConn}

C24_LeaveFromIdleIsNoOp ==
  [][(voiceStatus = "idle" /\ lastOp' = "voice:shutdown") =>
       /\ emitted' = <<>>
       /\ UNCHANGED <<voiceStatus, flags, peersRef, remoteStreams,
                      localStreamRef>>]_vars

\* C25: a voice:participants step is the one of the payload that equals the
\* new list; a voice:status step is the one of a payload u that is in the
\* new list, as its only entry of u's id, at the place of that id's entry if
\* there was one and at the end if not, the other entries as they were; the
\* ids of the list stay unique.
UniqueIds(list) ==
  \A i, j \in DOMAIN list : i # j => list[i].playerId # list[j].playerId

C25_RegistryReplaceAndPatch ==
  [][/\ lastOp' = "voice:participants" => HandleParticipantsOf({participants'})
     /\ lastOp' = "voice:status" =>
          \E k \in DOMAIN participants' :
            LET u == participants'[k]
            IN  /\ HandleStatusWith(u)
                /\ Cardinality({j \in DOMAIN participants' :
                                  participants'[j].playerId = u.playerId}) = 1
                /\ \A j \in DOMAIN participants :
                     participants[j].playerId = u.playerId => j = k
                /\ \A j \in DOMAIN participants \ {k} :
                     participants'[j] = participants[j]
                /\ DOMAIN participants' = DOMAIN participants \cup {k}
                /\ u.playerId \notin Ids(participants) =>
                     k = Len(participants) + 1
     /\ UniqueIds(participants')]_vars

\* the status of 0 replaced its entry between those of 2 and 1
C25_Witness ==
  /\ lastOp = "voice:status" /\ ~manualMuted
  /\ participants = <<Entry(2, TRUE), Entry(SelfId, FALSE), Entry(1, TRUE)>>

\* C26: every unclosed connection is the one held by the PeerRecord of its
\* participant, so no participant has two unclosed connections.
C26_OneOpenConnectionPerPeer ==
  \A c \in ConnIds :
    isOpen(conns[c]) => peersRef[conns[c].target].conn = c

\* a roster and an offer of 1 arrived while 1's own offer was suspended
C26_Witness ==
  /\ lastOp = "voice:offer" /\ voiceStatus = "online"
  /\ Cardinality({t \in tasks : t.id = 1 /\ t.conn = peersRef[1].conn}) = 2
  /\ \E t \in tasks : t.kind = "sync" /\ t.pc = "createOffer"
  /\ Cardinality({c \in ConnIds : isOpen(conns[c])}) = 2

\* C27: when the reconciles of overlapping rosters have all settled while
\* online, no record is left for an id absent from the latest roster and
\* every id of that roster other than the local one has a record.
C27_OverlapSettlesOnLatest ==
  (tasks = {} /\ voiceStatus = "online") =>
    /\ \A i \in Keys(peersRef) : i \in Ids(participants)
    /\ \A i \in Ids(participants) \ {SelfId} : peersRef[i] # NoRecord

\* C28: once nothing is pending in an online session, the PeerRecord keys
\* are the ids of the last roster other than the local one, also after a
\* connection failure and after an offer of a sender outside the roster.
C28_KeysConvergeToRoster ==
  (tasks = {} /\ voiceStatus = "online") =>
    Keys(peersRef) = Ids(participants) \ {SelfId}
\* C29: a voice:offer or a voice:answer is emitted only by a step that ends
\* with the status online.
C29_NoNegotiationUnlessOnline ==
  \A k \in DOMAIN emitted :
    emitted[k].type \in {"voice:offer", "voice:answer"} => voiceStatus = "online"

\* C30: an ICE-candidate, track or connection-state event of a connection
\* that a leave closed emits nothing, adds no remote stream and leaves every
\* PeerRecord and connection as it was, also the record that a later join
\* made for the same participant.
C30_ClosedConnectionsAreSilent ==
  [][lastOp' \in {"lateIceCandidate", "lateTrack", "lateConnectionState"} =>
       /\ emitted' = <<>> /\ SameConnections
       /\ UNCHANGED <<remoteStreamRef, remoteStreams, voiceStatus, flags,
                      localStreamRef, streams>>]_vars

\* a track event of the connection that the leave closed, delivered when the
\* next session has a record of the same participant
C30_Witness ==
  /\ lastOp = "lateTrack" /\ voiceStatus = "online" /\ localStreamRef = 2
  /\ peersRef[1] # NoRecord /\ remoteStreams[1] = NoConn
  /\ \E t \in tasks : /\ t.id = 1 /\ t.conn # peersRef[1].conn
                       /\ t.pc = "createAnswer" /\ conns[t.conn].sig = "closed"
\* the call t has begun an offer to the participant id
Offering(ts, id) ==
  \E t \in ts : t.kind = "sync" /\ t.pc = "createOffer" /\ t.id = id

\* C31: a client that handles a roster with the other client's id and has no
\* record for it begins an offer to it, whether its own id is the lower or
\* the higher of the two; so both offers can be in flight at once
C31_BothSidesInitiate ==
  [][/\ (lastOp' = "voice:participants" /\ peersRef[PeerId] = NoRecord)
          => Offering(tasks', PeerId)
     /\ (lastOp' = "peer:participants" /\ peer.s.peersRef[SelfId] = NoRecord)
          => Offering(peer'.tasks, SelfId)]_vars

\* each client has emitted its offer, neither has handled the other's
C31_Witness ==
  /\ wire.toPeer >= 1 /\ wire.toLocal >= 1 /\ wire.handled = {}
  /\ peersRef[PeerId] # NoRecord /\ conns[peersRef[PeerId].conn].offers >= 1
  /\ peer.s.peersRef[SelfId] # NoRecord
  /\ peer.s.conns[peer.s.peersRef[SelfId].conn].offers >= 1

\* the record of id can be offered to
Eligible(recs, cs, id) ==
  recs[id] # NoRecord /\ cs[recs[id].conn].sig = "stable" /\ ~recs[id].negotiated

\* a reconcile loop with the ids rest to visit went on to its next await:
\* every id up to the first one it can offer to has its record, and the
\* offer to that one has begun
RECURSIVE Continued(_, _, _, _)
Continued(recs, cs, ts, rest) ==
  \/ rest = <<>>
  \/ /\ recs[Head(rest)] # NoRecord
     /\ IF Eligible(recs, cs, Head(rest))
          THEN \E t \in ts : /\ t.kind = "sync" /\ t.pc = "createOffer"
                             /\ t.id = Head(rest) /\ t.rest = Tail(rest)
          ELSE Continued(recs, cs, ts, Tail(rest))

\* C32: a rejected createOffer, setLocalDescription, setRemoteDescription or
\* createAnswer leaves the session online with its stream, changes no record
\* and no remote stream of another peer, and a rejected step of a reconcile
\* lets the loop go on: the remaining ids get their records and the next
\* offer begins
C32_FailureIsIsolated ==
  [][(lastOp' = "rejected" /\ voiceStatus = "online") =>
       /\ voiceStatus' = "online" /\ localStreamRef' = localStreamRef
       /\ UNCHANGED <<remoteStreamRef, remoteStreams, flags>>
       /\ \E t \in tasks :
            /\ Disturbed(tasks \ {t}) \subseteq tasks'
            /\ \A i \in AllIds :
                 \/ peersRef'[i] = peersRef[i]
                 \/ /\ peersRef[i] = NoRecord /\ t.kind = "sync"
                    /\ i \in Range(t.rest)
            /\ t.kind = "sync" => Continued(peersRef', conns', tasks', t.rest)]_vars

\* the offer to peer 1 was rejected and the loop has gone on to peer 2
C32_Witness ==
  /\ lastOp = "rejected" /\ voiceStatus = "online"
  /\ peersRef[1] # NoRecord /\ ~peersRef[1].negotiated
  /\ peersRef[2] # NoRecord
  /\ \E t \in tasks : /\ t.kind = "sync" /\ t.pc = "createOffer" /\ t.id = 2
                      /\ t.alone

\* C33: while the status is idle the flags have their defaults, manualMuted
\* true, autoMuted false, pushActive false, whatever event was handled
C33_IdleHasDefaultFlags == voiceStatus = "idle" => DefaultFlags

\* C34: while online, a voice:status for the local participant that arrives
\* after the user's last mute toggle chose muted, with push-to-talk not
\* held, leaves the outbound track disabled
C34_StatusKeepsManualMute ==
  [][(/\ lastOp' = "voice:status" /\ voiceStatus = "online"
      /\ manualMuted /\ sent.mute = "true"
      /\ ~pushActive /\ ~pushActive' /\ localStreamRef' # NoStream)
       => streams'[localStreamRef'] # "on"]_vars

\* C35: peersRef never holds a record under the local participant's id,
\* after a reconcile of a roster with that id as after a voice:offer from it
C35_NoRecordForSelf == peersRef[SelfId] = NoRecord

\* the local participant's flags as a participant entry
OwnFlags ==
  [isMuted |-> manualMuted, isAutoMuted |-> autoMuted,
   pushToTalkPressed |-> pushActive]

\* C36: for flags with push-to-talk pressed, isSpeaking derived from them is
\* true exactly when the track enablement rule enables the track for them
C36_SpeakingIsAudible ==
  OwnFlags.pushToTalkPressed => (isSpeaking(OwnFlags) <=> shouldEnable(Here))

PushReleased == <<Msg("voice:push-to-talk", "false")>>

\* C37: a press clears the release marker; the first release path that runs
\* after it (the button's handlePushEnd or the window's handleRelease)
\* broadcasts isPressed false once and clears pushActive; handlePushEnd
\* running after handleRelease broadcasts nothing more and clears the marker
C37_OneReleasePerPress ==
  [][/\ (lastOp' = "pushStart" /\ socket /\ voiceStatus = "online")
          => pushActive' /\ ~pushReleasedRef'
     /\ (/\ lastOp = "pushStart" /\ socket /\ voiceStatus = "online"
         /\ lastOp' \in {"pushEnd", "windowRelease"})
          => emitted' = PushReleased /\ ~pushActive'
     /\ (/\ lastOp = "windowRelease" /\ socket /\ voiceStatus = "online"
         /\ lastOp' = "pushEnd")
          => emitted' = <<>> /\ ~pushActive' /\ ~pushReleasedRef']_vars

\* handleRelease, then handlePushEnd: the one broadcast stands, the marker
\* is cleared
C37_Witness ==
  /\ lastOp = "pushEnd" /\ socket /\ voiceStatus = "online"
  /\ emitted = <<>> /\ sent.push = "false"
  /\ ~pushActive /\ ~pushReleasedRef

\* C38: once the component is unmounted, every connection of a PeerRecord is
\* closed and no track of a microphone stream is live
C38_DisposeReleasesAll ==
  lastOp = "unmount" =>
    /\ \A i \in AllIds : peersRef[i] # NoRecord => ~isOpen(conns[peersRef[i].conn])
    /\ \A i \in StreamIds : streams[i] \notin {"on", "off"}

\* C39: isConnected is true only while the socket of the last effect exists
\* and its last event was connect or reconnect
C39_ConnectedIsOfCurrentSocket ==
  hook.isConnected =>
    hook.socketRef # NoSocket /\ hook.links[hook.socketRef] = "connected"

\* C40: a WebSocket whose disconnect function was called reports no status
\* any more, so the status stays true while the connection of the current
\* effect, which reported open, stays open
C40_ClosedSocketIsSilent ==
  [][/\ (page'.socketConnected # page.socketConnected \/ page'.from # page.from)
          => (lastOp' = "page:room" \/ page'.from = page.current)
     /\ (/\ page.current # NoSocket /\ page.sockets[page.current] = "open"
         /\ page.socketConnected
         /\ page'.current = page.current /\ page'.sockets[page.current] = "open")
          => page'.socketConnected]_vars

====
